---- MODULE Spec2Model ----
(***************************************************************************)
(* A model of FirestickRemote.py: the Tk UI thread and its "after" queue,  *)
(* the fire-and-forget worker threads, the keep-alive thread, the version  *)
(* comparison, the update flow and the bin zip extraction.                 *)
(*                                                                         *)
(* Python strings are modelled as sequences of one-character strings, so   *)
(* that strip, lstrip, split, int and substring search are computed the    *)
(* way the interpreter computes them.                                      *)
(***************************************************************************)
EXTENDS Integers, Sequences, FiniteSets, TLC

----------------------------------------------------------------------------
(* Bounds of the model                                                     *)

\* keep-alive thread objects that may exist at once (alive or still referenced)
MaxKA == 2
\* fire-and-forget worker threads that may exist at once
MaxWorkers == 2
\* callbacks that may wait in the Tk "after" queue
MaxAfter == 2
\* length of the version strings that are enumerated
MaxVerLen == 4

----------------------------------------------------------------------------
(* Python string primitives                                                *)

Digits == <<"0", "1", "2", "3", "4", "5", "6", "7", "8", "9">>

IsDigit(c) == \E i \in 1..Len(Digits) : Digits[i] = c

DigitVal(c) == (CHOOSE i \in 1..Len(Digits) : Digits[i] = c) - 1

\* the characters str.strip() removes
WS == {" ", "\n", "\t"}

RECURSIVE LStripWS(_)
LStripWS(s) == IF s # <<>> /\ Head(s) \in WS THEN LStripWS(Tail(s)) ELSE s

RECURSIVE RStripWS(_)
RStripWS(s) ==
    IF s # <<>> /\ s[Len(s)] \in WS THEN RStripWS(SubSeq(s, 1, Len(s) - 1)) ELSE s

\* str.strip()
Strip(s) == RStripWS(LStripWS(s))

\* str.lstrip(chars): removes every leading character that is in chars
RECURSIVE LStripChars(_, _)
LStripChars(s, chars) ==
    IF s # <<>> /\ Head(s) \in chars THEN LStripChars(Tail(s), chars) ELSE s

\* str.split(sep) for a one-character separator: "" gives [""]
RECURSIVE Split(_, _)
Split(s, sep) ==
    IF s = <<>> THEN << <<>> >>
    ELSE IF Head(s) = sep THEN << <<>> >> \o Split(Tail(s), sep)
    ELSE LET r == Split(Tail(s), sep)
         IN  << <<Head(s)>> \o r[1] >> \o Tail(r)

\* str.isdigit() on the ASCII characters of the model
StrIsDigit(s) == s # <<>> /\ \A i \in 1..Len(s) : IsDigit(s[i])

\* the value of a run of decimal digits
RECURSIVE DecimalValue(_)
DecimalValue(s) ==
    IF s = <<>> THEN 0
    ELSE 10 * DecimalValue(SubSeq(s, 1, Len(s) - 1)) + DigitVal(s[Len(s)])

\* whether a is a substring of s (Python's "a in s")
Contains(s, a) ==
    \E i \in 0..(Len(s) - Len(a)) : SubSeq(s, i + 1, i + Len(a)) = a

StartsWith(s, a) == Len(s) >= Len(a) /\ SubSeq(s, 1, Len(a)) = a

----------------------------------------------------------------------------
(* Program constants                                                       *)

APP_VERSION == <<"1", ".", "2", ".", "5">>

BIN_REQUIRED_VERSION == <<"1", ".", "0", ".", "0">>

DefaultPort == <<"5", "5", "5", "5">>

MaxByte == 255

MaxPort == 65535

----------------------------------------------------------------------------
(* Version comparison                                                      *)

\* int(p) accepts optional surrounding whitespace, an optional sign and decimal
\* digits that may be separated by single underscores; anything else raises
\* ValueError
PyIntBody(p) ==
    LET t == Strip(p)
    IN  IF t # <<>> /\ Head(t) \in {"+", "-"} THEN Tail(t) ELSE t

PyIntParses(p) ==
    LET b == PyIntBody(p)
    IN  /\ b # <<>>
        /\ \A i \in 1..Len(b) : IsDigit(b[i]) \/ b[i] = "_"
        /\ IsDigit(b[1]) /\ IsDigit(b[Len(b)])
        /\ \A i \in 1..(Len(b) - 1) : ~(b[i] = "_" /\ b[i + 1] = "_")

PyIntValue(p) ==
    LET t == Strip(p)
        b == SelectSeq(PyIntBody(p), IsDigit)
    IN  IF t # <<>> /\ Head(t) = "-" THEN 0 - DecimalValue(b) ELSE DecimalValue(b)

\* one list element per segment: int(p), or 0 on ValueError
VersionPart(p) == IF PyIntParses(p) THEN PyIntValue(p) ELSE 0

\* a variant of _version_tuple: "except ValueError: pass", the segment is dropped
_version_tuple_SkipsBadSegment(v) ==
    LET parts == SelectSeq(Split(LStripChars(Strip(v), {"v"}), "."), PyIntParses)
    IN  [i \in 1..Len(parts) |-> PyIntValue(parts[i])]

_version_tuple(v) ==
    LET parts == Split(LStripChars(Strip(v), {"v"}), ".")
    IN  [i \in 1..Len(parts) |-> VersionPart(parts[i])]

\* Python's tuple "<": the first differing element decides, else the length
RECURSIVE TupleLess(_, _)
TupleLess(a, b) ==
    IF a = <<>> THEN b # <<>>
    ELSE IF b = <<>> THEN FALSE
    ELSE IF Head(a) # Head(b) THEN Head(a) < Head(b)
    ELSE TupleLess(Tail(a), Tail(b))

TupleLE(a, b) == a = b \/ TupleLess(a, b)

----------------------------------------------------------------------------
(* State                                                                   *)

VARIABLES
    \* connection card: entry fields, bin/bin_version.txt, status label, widgets
    ip_var, port_var, bin_version_txt, status_var, is_connected, widgets,
    \* keep-alive: the check box, the Event, the Thread reference, the threads
    keep_alive_var, keepalive_stop, keepalive_thread, ka_pc, ka_ok, ka_late,
    \* the UI thread, the Tk "after" queue, the worker threads, the window
    ui_pc, after_queue, workers, destroyed,
    \* a version comparison: its two operands and what it computed
    ver_in, ver_other, ver_out,
    \* the update flow: the button, the latest release on the host, sys.frozen,
    \* and the swap script once it was launched
    update_btn, release, frozen, swapped,
    \* apply_bin_update: os.name, the archive members still to extract, the
    \* paths written so far, and how the call stands
    os_name, zip_members, zip_written, zip_state,
    \* the ADB command box: the entry, the "full adb" box, the output pane,
    \* the history list and its index
    cmd_var, advanced_cmd_var, cmd_output, _cmd_history, _cmd_history_index,
    \* how many entries the history has dropped at its old end so far, counted
    \* up to MaxDropped
    hist_dropped

connVars == <<ip_var, port_var, bin_version_txt, status_var, is_connected, widgets>>
kaVars == <<keep_alive_var, keepalive_stop, keepalive_thread, ka_pc, ka_ok, ka_late>>
thrVars == <<ui_pc, after_queue, workers, destroyed>>

verVars == <<ver_in, ver_other, ver_out>>
updVars == <<update_btn, release, frozen, swapped>>
zipVars == <<os_name, zip_members, zip_written, zip_state>>
cmdVars == <<cmd_var, advanced_cmd_var, cmd_output, _cmd_history, _cmd_history_index,
             hist_dropped>>

\* what the connection, keep-alive and thread actions leave alone
notConn == <<verVars, updVars, zipVars, cmdVars>>

\* what a version comparison leaves alone
notVer == <<connVars, kaVars, thrVars, updVars, zipVars, cmdVars>>

\* what the update flow leaves alone
notUpd == <<ip_var, port_var, status_var, is_connected, widgets, kaVars, verVars,
           zipVars, cmdVars>>

\* what apply_bin_update leaves alone
notZip == <<connVars, kaVars, thrVars, verVars, updVars, cmdVars>>

vars == <<connVars, kaVars, thrVars, verVars, updVars, zipVars, cmdVars>>

KASlots == 1..MaxKA
WorkerSlots == 1..MaxWorkers

NoWorker == [kind |-> "free"]
NoResult == [done |-> FALSE]
NoSwap == [done |-> FALSE]
UiIdle == [at |-> "idle"]

\* the widget states update_remote_buttons_state sets for a value of is_connected
update_remote_buttons_state(connected) ==
    [remote_buttons |-> connected,
     disconnect_btn |-> connected,
     connect_btn    |-> ~connected,
     keep_alive_cb  |-> connected,
     cmd_entry      |-> connected,
     cmd_send_btn   |-> connected,
     advanced_cb    |-> connected]

\* read_bin_version(): the stripped file, or "" when it cannot be read
read_bin_version == IF bin_version_txt.exists THEN Strip(bin_version_txt.text) ELSE <<>>

bin_is_compatible ==
    LET found == read_bin_version
    IN  IF found = <<>> THEN FALSE
        ELSE TupleLE(_version_tuple(BIN_REQUIRED_VERSION), _version_tuple(found))

\* re.fullmatch(r"(\d{1,3}\.){3}\d{1,3}", ip) and every group in 0..255
_valid_ip(ip) ==
    LET parts == Split(ip, ".")
    IN  /\ Len(parts) = 4
        /\ \A i \in 1..4 : StrIsDigit(parts[i]) /\ Len(parts[i]) <= 3
        /\ \A i \in 1..4 : DecimalValue(parts[i]) <= MaxByte

\* U+00B2: str.isdigit() is true for it, int() raises ValueError on it
SuperscriptTwo == "sup2"

\* str.isdigit()
PyStrIsDigit(s) == s # <<>> /\ \A i \in 1..Len(s) : IsDigit(s[i]) \/ s[i] = SuperscriptTwo

\* int(port) raises inside _valid_port
ValidPortRaises(port) == PyStrIsDigit(port) /\ ~StrIsDigit(port)

_valid_port_AcceptsZero(port) ==
    IF ~PyStrIsDigit(port) \/ ValidPortRaises(port) THEN FALSE
    ELSE DecimalValue(port) <= MaxPort

\* FALSE also stands for the ValueError; ConnectRaises tells the two apart
_valid_port(port) ==
    IF ~PyStrIsDigit(port) \/ ValidPortRaises(port) THEN FALSE
    ELSE 1 <= DecimalValue(port) /\ DecimalValue(port) <= MaxPort

\* ip and port as connect() and disconnect() read them from the entries
EntryIp == Strip(ip_var)
EntryPort == Strip(IF Strip(port_var) = <<>> THEN DefaultPort ELSE Strip(port_var))

\* device_authorized(): the first listed line in state unauthorized or device decides
RECURSIVE FirstDecisive(_)
FirstDecisive(listing) ==
    IF listing = <<>> THEN FALSE
    ELSE IF Head(listing).state = "unauthorized" THEN FALSE
    ELSE IF Head(listing).state = "device" THEN TRUE
    ELSE FirstDecisive(Tail(listing))

device_authorized(ok, listing) == IF ~ok THEN FALSE ELSE FirstDecisive(listing)

----------------------------------------------------------------------------
(* Inputs                                                                  *)

GoodIp == <<"1", ".", "2", ".", "3", ".", "4">>

GoodBinFile == [exists |-> TRUE, text |-> <<"1", ".", "0", ".", "0", "\n">>]

\* outputs of "adb devices": the listed lines after the header
Listings ==
    { <<>>,
      << [serial |-> "target", state |-> "device"] >>,
      << [serial |-> "target", state |-> "unauthorized"] >>,
      << [serial |-> "target", state |-> "offline"] >>,
      << [serial |-> "other", state |-> "device"],
         [serial |-> "target", state |-> "unauthorized"] >> }

----------------------------------------------------------------------------
(* Threads                                                                 *)

IsAlive(pc) == pc \in {"wait", "check", "adb"}

\* the workers whose first statement is a run_adb_command call
AdbWorkerKinds == {"connect", "manual", "key", "ok"}

FreeWorker(w) ==
    /\ workers[w] = NoWorker
    /\ \A u \in WorkerSlots : u < w => workers[u] # NoWorker

\* a worker thread that was started reaches its first run_adb_command call
WorkerStart(w) ==
    /\ workers[w].kind \in AdbWorkerKinds
    /\ workers[w].pc = "start"
    /\ workers' = [workers EXCEPT ![w].pc = "adb"]
    /\ UNCHANGED <<connVars, kaVars, ui_pc, after_queue, destroyed>>
    /\ UNCHANGED notConn

\* master.after(0, cb) from a thread: queued for the UI thread, lost once the
\* window is destroyed
Post(cb) == IF destroyed THEN after_queue ELSE Append(after_queue, cb)

CanPost == destroyed \/ Len(after_queue) < MaxAfter

\* two consecutive master.after calls
Post2(cb1, cb2) == IF destroyed THEN after_queue ELSE after_queue \o <<cb1, cb2>>

CanPost2 == destroyed \/ Len(after_queue) + 2 <= MaxAfter

----------------------------------------------------------------------------
(* Keep-alive                                                              *)

_stop_keep_alive == keepalive_stop' = TRUE

\* a variant of KeepAliveRunning: the is_alive() test of line 759 left out
KeepAliveRunning_NoAliveTest == FALSE

\* line 759: a keep-alive thread exists and is alive
KeepAliveRunning == keepalive_thread # 0 /\ IsAlive(ka_pc[keepalive_thread])

_start_keep_alive ==
    IF KeepAliveRunning
    THEN UNCHANGED <<keepalive_stop, keepalive_thread, ka_pc, ka_ok, ka_late>>
    ELSE LET \* the finished thread object the reference pointed to is dropped
             freed == [t \in KASlots |->
                          IF t = keepalive_thread /\ ~IsAlive(ka_pc[t])
                          THEN "free" ELSE ka_pc[t]]
         IN  \E t \in KASlots :
                /\ freed[t] = "free"
                /\ \A u \in KASlots : u < t => freed[u] # "free"
                /\ keepalive_stop' = FALSE
                /\ keepalive_thread' = t
                /\ ka_pc' = [freed EXCEPT ![t] = "wait"]
                /\ ka_ok' = [ka_ok EXCEPT ![t] = TRUE]
                /\ ka_late' = [ka_late EXCEPT ![t] = 0]

_on_toggle_keep_alive ==
    /\ ui_pc = UiIdle /\ ~destroyed
    /\ widgets.keep_alive_cb
    /\ keep_alive_var' = ~keep_alive_var
    /\ IF keep_alive_var'
       THEN IF is_connected
            THEN _start_keep_alive
            ELSE UNCHANGED <<keepalive_stop, keepalive_thread, ka_pc, ka_ok, ka_late>>
       ELSE /\ _stop_keep_alive
            /\ UNCHANGED <<keepalive_thread, ka_pc, ka_ok, ka_late>>
    /\ UNCHANGED <<connVars, thrVars>>
    /\ UNCHANGED notConn

\* the thread object after its loop ended
KAEnded(t) == IF t = keepalive_thread THEN "done" ELSE "free"

\* a variant of KAWaitResult: the loop condition without its "not"
KAWaitResult_Inverted == ~keepalive_stop

\* a variant of KAWaitResult: a plain sleep that never looks at the Event
KAWaitResult_Sleep == FALSE

\* self._keepalive_stop.wait(45): True at once when the Event is set, False after
\* the 45 seconds
KAWaitResult == keepalive_stop

KAWait(t) ==
    /\ ka_pc[t] = "wait"
    /\ ka_pc' = [ka_pc EXCEPT ![t] = IF KAWaitResult THEN KAEnded(t) ELSE "check"]
    /\ UNCHANGED <<connVars, thrVars, keep_alive_var, keepalive_stop,
                   keepalive_thread, ka_ok, ka_late>>
    /\ UNCHANGED notConn

\* "if not self.is_connected: break", else run_adb_command starts
KACheck(t) ==
    /\ ka_pc[t] = "check"
    /\ IF ~is_connected
       THEN /\ ka_pc' = [ka_pc EXCEPT ![t] = KAEnded(t)]
            /\ UNCHANGED ka_late
       ELSE /\ ka_pc' = [ka_pc EXCEPT ![t] = "adb"]
            /\ ka_late' = [ka_late EXCEPT ![t] =
                              IF keepalive_stop /\ @ < 2 THEN @ + 1 ELSE @]
    /\ UNCHANGED <<connVars, thrVars, keep_alive_var, keepalive_stop,
                   keepalive_thread, ka_ok>>
    /\ UNCHANGED notConn

\* the keyevent command returned: "if not ok: break"
KAAdbDone(t) ==
    /\ ka_pc[t] = "adb"
    /\ \E ok \in BOOLEAN :
          /\ ka_ok' = [ka_ok EXCEPT ![t] = ok]
          /\ ka_pc' = [ka_pc EXCEPT ![t] = IF ok THEN "wait" ELSE KAEnded(t)]
    /\ UNCHANGED <<connVars, thrVars, keep_alive_var, keepalive_stop,
                   keepalive_thread, ka_late>>
    /\ UNCHANGED notConn

KAStep(t) == KAWait(t) \/ KACheck(t) \/ KAAdbDone(t)

----------------------------------------------------------------------------
(* Connect and disconnect                                                  *)

\* the checks connect() makes before it touches anything (lines 792-813); each
\* failure shows a dialog and returns
ConnectRejected ==
    \/ ~bin_is_compatible
    \/ EntryIp = <<>>
    \/ ~_valid_ip(EntryIp)
    \/ ~_valid_port(EntryPort)

\* the ValueError of int(port) leaves connect() before it touches anything
ConnectRaises ==
    /\ bin_is_compatible
    /\ EntryIp # <<>>
    /\ _valid_ip(EntryIp)
    /\ ValidPortRaises(EntryPort)

\* the Connect button, or Return in the IP or port entry
connect ==
    /\ ui_pc = UiIdle /\ ~destroyed
    /\ IF ConnectRejected \/ ConnectRaises
       THEN UNCHANGED <<status_var, widgets, workers>>
       ELSE /\ widgets' = [widgets EXCEPT !.connect_btn = FALSE,
                                          !.disconnect_btn = FALSE]
            /\ status_var' = <<"Connecting to", EntryIp, EntryPort>>
            /\ \E w \in WorkerSlots :
                  /\ FreeWorker(w)
                  /\ workers' = [workers EXCEPT ![w] =
                                    [kind |-> "connect", pc |-> "start",
                                     ip |-> EntryIp, port |-> EntryPort]]
    /\ UNCHANGED <<ip_var, port_var, bin_version_txt, is_connected, kaVars,
                   ui_pc, after_queue, destroyed>>
    /\ UNCHANGED notConn

\* connect.worker: "adb connect ip:port" returned; finish_ui goes to the UI thread
ConnectWorkerDone(w) ==
    /\ workers[w].kind = "connect"
    /\ workers[w].pc = "adb"
    /\ CanPost
    /\ \E success \in BOOLEAN :
          after_queue' = Post([cb |-> "finish_ui", success |-> success,
                               ip |-> workers[w].ip, port |-> workers[w].port])
    /\ workers' = [workers EXCEPT ![w] = NoWorker]
    /\ UNCHANGED <<connVars, kaVars, ui_pc, destroyed>>
    /\ UNCHANGED notConn

\* finish_ui on the UI thread: a failed connect is reported at once, a
\* successful one first calls device_authorized(), which runs "adb devices"
finish_ui ==
    /\ ui_pc = UiIdle /\ ~destroyed
    /\ after_queue # <<>>
    /\ Head(after_queue).cb = "finish_ui"
    /\ after_queue' = Tail(after_queue)
    /\ IF Head(after_queue).success
       THEN /\ ui_pc' = [at |-> "devices_adb", ip |-> Head(after_queue).ip,
                         port |-> Head(after_queue).port]
            /\ UNCHANGED <<is_connected, status_var, widgets>>
       ELSE /\ is_connected' = FALSE
            /\ status_var' = <<"Connection failed">>
            /\ widgets' = update_remote_buttons_state(FALSE)
            /\ UNCHANGED ui_pc
    /\ UNCHANGED <<ip_var, port_var, bin_version_txt, kaVars, workers, destroyed>>
    /\ UNCHANGED notConn

\* line 98: run_adb_command(["devices"]) returns inside device_authorized()
DevicesAdbReturn ==
    /\ ui_pc.at = "devices_adb"
    /\ \E ok \in BOOLEAN, listing \in Listings :
          ui_pc' = [at |-> "devices_out", ip |-> ui_pc.ip, port |-> ui_pc.port,
                    ok |-> ok, listing |-> listing]
    /\ UNCHANGED <<connVars, kaVars, after_queue, workers, destroyed>>
    /\ UNCHANGED notConn

\* lines 99-107 and 824-850: the listing is read and finish_ui goes on
finish_ui_authorized ==
    /\ ui_pc.at = "devices_out"
    /\ LET ok == ui_pc.ok
           listing == ui_pc.listing
       IN IF ~device_authorized(ok, listing)
          THEN /\ is_connected' = FALSE
               /\ status_var' = <<"Not connected">>
               /\ UNCHANGED kaVars
          ELSE /\ is_connected' = TRUE
               /\ status_var' = <<"Connected to", ui_pc.ip, ui_pc.port>>
               /\ UNCHANGED keep_alive_var
               /\ IF keep_alive_var
                  THEN _start_keep_alive
                  ELSE UNCHANGED <<keepalive_stop, keepalive_thread, ka_pc,
                                   ka_ok, ka_late>>
    /\ widgets' = update_remote_buttons_state(is_connected')
    /\ ui_pc' = UiIdle
    /\ UNCHANGED <<ip_var, port_var, bin_version_txt, after_queue, workers, destroyed>>
    /\ UNCHANGED notConn

\* the Disconnect button: the stop signal, then run_adb_command on the UI thread
disconnect ==
    /\ ui_pc = UiIdle /\ ~destroyed
    /\ widgets.disconnect_btn
    /\ _stop_keep_alive
    /\ ui_pc' = [at |-> "disconnect_adb",
                 target |-> IF EntryIp # <<>> /\ _valid_port(EntryPort)
                            THEN <<EntryIp, EntryPort>> ELSE <<>>]
    /\ UNCHANGED <<connVars, keep_alive_var, keepalive_thread, ka_pc, ka_ok,
                   ka_late, after_queue, workers, destroyed>>
    /\ UNCHANGED notConn

\* "adb disconnect" returned
disconnect_done ==
    /\ ui_pc.at = "disconnect_adb"
    /\ is_connected' = FALSE
    /\ status_var' = <<"Disconnected">>
    /\ widgets' = update_remote_buttons_state(FALSE)
    /\ ui_pc' = UiIdle
    /\ UNCHANGED <<ip_var, port_var, bin_version_txt, kaVars, after_queue,
                   workers, destroyed>>
    /\ UNCHANGED notConn

\* WM_DELETE_WINDOW
_on_close ==
    /\ ui_pc = UiIdle /\ ~destroyed
    /\ _stop_keep_alive
    /\ destroyed' = TRUE
    /\ UNCHANGED <<connVars, keep_alive_var, keepalive_thread, ka_pc, ka_ok,
                   ka_late, ui_pc, after_queue, workers>>
    /\ UNCHANGED notConn

\* mainloop() returned: the interpreter exits and its daemon threads with it
ProcessExit ==
    /\ destroyed
    /\ \/ \E t \in KASlots : ka_pc[t] # "free"
       \/ \E w \in WorkerSlots : workers[w] # NoWorker
    /\ ka_pc' = [t \in KASlots |-> "free"]
    /\ keepalive_thread' = 0
    /\ workers' = [w \in WorkerSlots |-> NoWorker]
    /\ UNCHANGED <<connVars, keep_alive_var, keepalive_stop, ka_ok, ka_late,
                   ui_pc, after_queue, destroyed>>
    /\ UNCHANGED notConn

----------------------------------------------------------------------------
(* The state after FirestickRemote.__init__                                *)

\* the entries as __init__ fills them
InitEntries == ip_var = <<>> /\ port_var = DefaultPort

\* not connected: the flag, the status line and the buttons
InitDisconnected ==
    /\ status_var = <<"Not connected">>
    /\ is_connected = FALSE
    /\ widgets = update_remote_buttons_state(FALSE)

\* no thread, no pending callback, an empty command box
InitThreads ==
    /\ keep_alive_var = FALSE
    /\ keepalive_stop = FALSE
    /\ keepalive_thread = 0
    /\ ka_pc = [t \in KASlots |-> "free"]
    /\ ka_ok = [t \in KASlots |-> TRUE]
    /\ ka_late = [t \in KASlots |-> 0]
    /\ ui_pc = UiIdle
    /\ after_queue = <<>>
    /\ workers = [w \in WorkerSlots |-> NoWorker]
    /\ destroyed = FALSE
    /\ update_btn = TRUE
    /\ swapped = NoSwap
    /\ cmd_output = <<>>
    /\ _cmd_history = <<>>
    /\ _cmd_history_index = 0
    /\ hist_dropped = 0

InitWindow == InitDisconnected /\ InitThreads

InitApp == InitEntries /\ InitWindow

----------------------------------------------------------------------------
(* Connection and keep-alive: the user has typed a valid address           *)

TypeAddress ==
    /\ ui_pc = UiIdle /\ ~destroyed
    /\ ip_var = <<>>
    /\ ip_var' = GoodIp
    /\ UNCHANGED <<port_var, bin_version_txt, status_var, is_connected, widgets,
                   kaVars, thrVars>>
    /\ UNCHANGED notConn

\* no version comparison under way
IdleVer == ver_in = <<>> /\ ver_other = <<>> /\ ver_out = NoResult

\* the release host and the packaging play no part
IdleUpd ==
    /\ release = [app_version |-> APP_VERSION, bin_required_version |-> <<>>,
                  has_exe |-> TRUE, has_bin |-> TRUE]
    /\ frozen = TRUE

\* nothing typed into the command box
IdleCmd == cmd_var = <<>> /\ advanced_cmd_var = FALSE

\* no archive is being extracted
IdleZip ==
    /\ os_name = "nt"
    /\ zip_members = <<>>
    /\ zip_written = {}
    /\ zip_state = "closed"

InitKA ==
    InitApp /\ bin_version_txt = GoodBinFile /\ IdleVer /\ IdleUpd /\ IdleZip /\ IdleCmd

NextKA ==
    \/ TypeAddress
    \/ connect
    \/ \E w \in WorkerSlots : WorkerStart(w)
    \/ \E w \in WorkerSlots : ConnectWorkerDone(w)
    \/ finish_ui
    \/ DevicesAdbReturn
    \/ finish_ui_authorized
    \/ disconnect
    \/ disconnect_done
    \/ _on_toggle_keep_alive
    \/ \E t \in KASlots : KAWait(t)
    \/ \E t \in KASlots : KACheck(t)
    \/ \E t \in KASlots : KAAdbDone(t)
    \/ _on_close
    \/ ProcessExit

SpecKA == InitKA /\ [][NextKA]_vars

FairSpecKA == SpecKA /\ \A t \in KASlots : WF_vars(KAStep(t))

----------------------------------------------------------------------------
(* Claims about the threads                                                *)

AliveKA == {t \in KASlots : IsAlive(ka_pc[t])}

\* C1: the UI thread never executes run_adb_command itself: every blocking adb
\* call of a user action runs on a worker thread.  (The code runs "adb
\* disconnect" and "adb devices" on the UI thread.)
C1_UiThreadNeverRunsAdb == ui_pc.at \notin {"disconnect_adb", "devices_adb"}

\* C2: at most one keep-alive thread is alive at any time.
C2_AtMostOneKeepAlive == Cardinality(AliveKA) <= 1

\* C2 witness: the box was ticked again (or the device reconnected) while the
\* previous keep-alive thread, already told to stop, is still alive
C2_Witness ==
    /\ keep_alive_var /\ is_connected /\ keepalive_stop
    /\ AliveKA # {}

\* C3 as stated: a keep-alive thread does not terminate while the stop signal
\* is clear.
C3_TerminatesOnlyOnStop ==
    [][\A t \in KASlots :
          IsAlive(ka_pc[t]) /\ ~IsAlive(ka_pc'[t]) => keepalive_stop]_vars

\* C3 amended: a keep-alive thread terminates only when the stop signal is
\* set, when it finds is_connected false, or when its keyevent command failed;
\* otherwise it goes on polling.
C3_TerminatesOnlyOnStopDisconnectOrFailure ==
    [][\A t \in KASlots :
          IsAlive(ka_pc[t]) /\ ~IsAlive(ka_pc'[t]) =>
             \/ keepalive_stop
             \/ ka_pc[t] = "check" /\ ~is_connected
             \/ ka_pc[t] = "adb" /\ ~ka_ok'[t]]_vars

\* C3 witness: a keep-alive thread has ended after a failed poll while the stop
\* signal is clear and the device still counts as connected
C3_Witness ==
    \E t \in KASlots :
       ka_pc[t] = "done" /\ ~ka_ok[t] /\ ~keepalive_stop /\ is_connected

\* C4 as stated: once the stop signal is set the keep-alive thread starts no
\* further adb keyevent command, and it eventually terminates.
C4_NoCommandAfterStop ==
    /\ [](\A t \in KASlots : ka_late[t] = 0)
    /\ \A t \in KASlots :
          (keepalive_stop /\ IsAlive(ka_pc[t])) ~> ~IsAlive(ka_pc[t])

\* C4 amended: once the stop signal is set the keep-alive thread starts at most
\* one further adb keyevent command (the one whose stop test it had already
\* passed), and it eventually terminates.
C4_AtMostOneCommandAfterStop ==
    /\ [](\A t \in KASlots : ka_late[t] <= 1)
    /\ \A t \in KASlots :
          (keepalive_stop /\ IsAlive(ka_pc[t])) ~> ~IsAlive(ka_pc[t])

\* C4 witness: a keep-alive thread started one command after the stop signal
\* and has terminated with the signal still set
C4_Witness ==
    \E t \in KASlots : ka_pc[t] = "done" /\ ka_late[t] = 1 /\ keepalive_stop

----------------------------------------------------------------------------
(* Version comparison as a function of its two operands                    *)

VerChars == {"v", ".", " ", "a", "-", "0", "1", "2"}

VerStrings == UNION {[1..n -> VerChars] : n \in 0..MaxVerLen}

\* the right-hand operands the code compares with: the two constants and what a
\* manifest or bin_version.txt may hold
VerOthers ==
    { APP_VERSION, BIN_REQUIRED_VERSION, <<"1", ".", "0">>, <<"v", "2">> }

InitVer ==
    /\ InitApp
    /\ bin_version_txt = GoodBinFile
    /\ IdleUpd
    /\ IdleZip
    /\ IdleCmd
    /\ ver_in \in VerStrings
    /\ ver_other = <<>>
    /\ ver_out = NoResult

\* the second operand is chosen
VersionOperand ==
    /\ ~ver_out.done
    /\ ver_other = <<>>
    /\ \E o \in VerOthers : ver_other' = o
    /\ UNCHANGED <<notVer, ver_in, ver_out>>

\* _version_tuple(a) < _version_tuple(b) and <=, as lines 136, 652 and 696 use them
VersionCompare ==
    /\ ~ver_out.done
    /\ ver_other # <<>>
    /\ ver_out' = [done  |-> TRUE,
                   tuple |-> _version_tuple(ver_in),
                   other |-> _version_tuple(ver_other),
                   less  |-> TupleLess(_version_tuple(ver_in), _version_tuple(ver_other)),
                   le    |-> TupleLE(_version_tuple(ver_in), _version_tuple(ver_other))]
    /\ UNCHANGED <<notVer, ver_in, ver_other>>

NextVer == VersionOperand \/ VersionCompare

SpecVer == InitVer /\ [][NextVer]_vars

----------------------------------------------------------------------------
(* C5                                                                      *)

\* the string the segments are taken from
Prepared(v) == LStripChars(Strip(v), {"v"})

DotsOf(s) == {k \in 1..Len(s) : s[k] = "."}

\* the position of the i-th dot; 0 before the first segment, Len+1 after the last
DotAt(s, i) ==
    IF i = 0 THEN 0
    ELSE IF i > Cardinality(DotsOf(s)) THEN Len(s) + 1
    ELSE CHOOSE k \in DotsOf(s) : Cardinality({j \in DotsOf(s) : j < k}) = i - 1

SegmentOf(s, i) == SubSeq(s, DotAt(s, i - 1) + 1, DotAt(s, i) - 1)

\* a numeric segment: decimal digits, with an optional sign and optional
\* surrounding blanks
NumericSegment(seg) ==
    \E i, j \in 1..Len(seg) :
       /\ i <= j
       /\ \A k \in 1..Len(seg) : (k < i \/ k > j) => seg[k] \in WS
       /\ \/ \A k \in i..j : IsDigit(seg[k])
          \/ i < j /\ seg[i] \in {"+", "-"} /\ \A k \in (i + 1)..j : IsDigit(seg[k])

NumericValue(seg) ==
    LET d == SelectSeq(seg, IsDigit)
    IN  IF \E k \in 1..Len(seg) : seg[k] = "-" THEN 0 - DecimalValue(d)
        ELSE DecimalValue(d)

\* lexicographic order: equal up to some position, where a is smaller or ends
LexLess(a, b) ==
    \E k \in 1..(Len(b)) :
       /\ k <= Len(a) + 1
       /\ \A j \in 1..(k - 1) : a[j] = b[j]
       /\ k = Len(a) + 1 \/ a[k] < b[k]

ClaimTupleOK(v, t) ==
    LET s == Prepared(v)
    IN  /\ Len(t) = Cardinality(DotsOf(s)) + 1
        /\ \A i \in 1..Len(t) :
              t[i] = IF NumericSegment(SegmentOf(s, i))
                     THEN NumericValue(SegmentOf(s, i)) ELSE 0

\* C5: _version_tuple gives one integer per dot-separated segment of the
\* stripped string, the value of a numeric segment and 0 for any other, and two
\* versions are ordered lexicographically by these tuples, a strict prefix
\* being the smaller.
C5_VersionTupleAndOrder ==
    ver_out.done =>
       /\ ClaimTupleOK(ver_in, ver_out.tuple)
       /\ ClaimTupleOK(ver_other, ver_out.other)
       /\ ver_out.less = LexLess(ver_out.tuple, ver_out.other)
       /\ ver_out.le = (ver_out.tuple = ver_out.other \/ ver_out.less)

\* C5 witness: "v1.a" was compared with "1.0.0": its tuple (1, 0) is a strict
\* prefix of (1, 0, 0), has a 0 for the non-numeric segment, and is the smaller
C5_Witness ==
    /\ ver_out.done
    /\ ver_in = <<"v", "1", ".", "a">>
    /\ ver_other = BIN_REQUIRED_VERSION
    /\ ver_out.tuple = <<1, 0>>
    /\ ver_out.less

----------------------------------------------------------------------------
(* The update flow                                                         *)

MinExeSize == 204800

ZeroVersion == <<"0", ".", "0", ".", "0">>

\* a variant of _validate_downloaded_exe: the MZ test left out
_validate_downloaded_exe_NoSignature(f) == f.exists /\ f.size >= MinExeSize

\* _validate_downloaded_exe: TRUE when it raises nothing
_validate_downloaded_exe(f) ==
    /\ f.exists
    /\ f.size >= MinExeSize
    /\ f.sig = <<"M", "Z">>

\* line 642: str(manifest.get("app_version", "")).strip().lstrip("v")
LatestApp(m) == LStripChars(Strip(m.app_version), {"v"})

\* line 643
LatestBinReq(m) == Strip(m.bin_required_version)

\* a variant of UpdateAvailable: ">=" for ">"
UpdateAvailable_OrEqual(latest_app) ==
    TupleLE(_version_tuple(APP_VERSION), _version_tuple(latest_app))

\* line 652, negated
UpdateAvailable(latest_app) ==
    ~TupleLE(_version_tuple(latest_app), _version_tuple(APP_VERSION))

\* line 696
BinUpdateNeeded(found_bin, latest_bin_req) ==
    /\ latest_bin_req # <<>>
    /\ TupleLess(_version_tuple(IF found_bin = <<>> THEN ZeroVersion ELSE found_bin),
                 _version_tuple(latest_bin_req))

BtnCb(enabled) == [cb |-> "update_btn", enabled |-> enabled]
DialogCb(kind, title) == [cb |-> kind, title |-> title]

\* the "Check for updates" button
check_updates ==
    /\ ui_pc = UiIdle /\ ~destroyed
    /\ update_btn
    /\ \E w \in WorkerSlots :
          /\ FreeWorker(w)
          /\ workers' = [workers EXCEPT ![w] = [kind |-> "check_updates", pc |-> "start"]]
    /\ UNCHANGED <<notUpd, bin_version_txt, ui_pc, after_queue, destroyed, updVars>>

\* check_updates.worker, line 625: the button is disabled by a queued callback
UpdWorkerBegin(w) ==
    /\ workers[w].kind = "check_updates"
    /\ workers[w].pc = "start"
    /\ CanPost
    /\ after_queue' = Post(BtnCb(FALSE))
    /\ workers' = [workers EXCEPT ![w].pc = "fetch"]
    /\ UNCHANGED <<notUpd, bin_version_txt, ui_pc, destroyed, updVars>>

\* lines 627-640: get_latest_release and read_manifest_from_release return the
\* manifest or raise
UpdWorkerFetch(w) ==
    /\ workers[w].kind = "check_updates"
    /\ workers[w].pc = "fetch"
    /\ \E outcome \in {"HTTPError", "Exception", "ok"} :
          IF outcome = "ok"
          THEN /\ workers' = [workers EXCEPT ![w] =
                                 [kind |-> "check_updates", pc |-> "decide",
                                  manifest |-> release]]
               /\ UNCHANGED after_queue
          ELSE /\ CanPost2
               /\ after_queue' = Post2(DialogCb("showerror", "Update error"), BtnCb(TRUE))
               /\ workers' = [workers EXCEPT ![w] = NoWorker]
    /\ UNCHANGED <<notUpd, bin_version_txt, ui_pc, destroyed, updVars>>

\* lines 642-667 and 735: what the worker queues for a manifest
UpdDecision(m) ==
    IF LatestApp(m) = <<>>
    THEN <<DialogCb("showerror", "Update error: missing app_version"), BtnCb(TRUE)>>
    ELSE IF ~UpdateAvailable(LatestApp(m))
    THEN <<DialogCb("showinfo", "Updates: up to date"), BtnCb(TRUE)>>
    ELSE IF ~m.has_exe
    THEN <<DialogCb("showerror", "Update error: missing asset"), BtnCb(TRUE)>>
    ELSE << [cb |-> "confirm_and_continue", manifest |-> m] >>

UpdWorkerDecide(w) ==
    /\ workers[w].kind = "check_updates"
    /\ workers[w].pc = "decide"
    /\ destroyed \/ Len(after_queue) + Len(UpdDecision(workers[w].manifest)) <= MaxAfter
    /\ after_queue' = IF destroyed THEN after_queue
                      ELSE after_queue \o UpdDecision(workers[w].manifest)
    /\ workers' = [workers EXCEPT ![w] = NoWorker]
    /\ UNCHANGED <<notUpd, bin_version_txt, ui_pc, destroyed, updVars>>

\* a queued update_btn.state([...]) callback runs
UpdateBtnCallback ==
    /\ ui_pc = UiIdle /\ ~destroyed
    /\ after_queue # <<>>
    /\ Head(after_queue).cb = "update_btn"
    /\ update_btn' = Head(after_queue).enabled
    /\ after_queue' = Tail(after_queue)
    /\ UNCHANGED <<notUpd, bin_version_txt, ui_pc, workers, destroyed, release,
                   frozen, swapped>>

\* a queued messagebox.showerror / showinfo runs
DialogCallback ==
    /\ ui_pc = UiIdle /\ ~destroyed
    /\ after_queue # <<>>
    /\ Head(after_queue).cb \in {"showerror", "showinfo"}
    /\ after_queue' = Tail(after_queue)
    /\ UNCHANGED <<notUpd, bin_version_txt, ui_pc, workers, destroyed, updVars>>

\* lines 669-680: the askyesno on the UI thread
confirm_and_continue ==
    /\ ui_pc = UiIdle /\ ~destroyed
    /\ after_queue # <<>>
    /\ Head(after_queue).cb = "confirm_and_continue"
    /\ after_queue' = Tail(after_queue)
    /\ \E yes \in BOOLEAN :
          IF ~yes
          THEN /\ update_btn' = TRUE
               /\ UNCHANGED workers
          ELSE /\ \E w \in WorkerSlots :
                     /\ FreeWorker(w)
                     /\ workers' = [workers EXCEPT ![w] =
                                       [kind |-> "do_update", pc |-> "download_exe",
                                        manifest |-> Head(after_queue).manifest,
                                        found_bin |-> <<>>,
                                        log |-> <<[ev |-> "confirmed"]>>]]
               /\ UNCHANGED update_btn
    /\ UNCHANGED <<notUpd, bin_version_txt, ui_pc, destroyed, release, frozen, swapped>>

\* what download_public_file may leave at tmp_exe
ExeFiles ==
    { [exists |-> FALSE, size |-> 0, sig |-> <<>>] } \cup
    { [exists |-> TRUE, size |-> n, sig |-> g] :
         n \in {MinExeSize - 1, MinExeSize}, g \in {<<"M", "Z">>, <<"P", "K">>} }

\* do_update, lines 683-704: the EXE is downloaded and validated, then the bin
\* version is read and compared
DoUpdateExe(w) ==
    /\ workers[w].kind = "do_update"
    /\ workers[w].pc = "download_exe"
    /\ \E raised \in BOOLEAN, f \in ExeFiles :
          LET m == workers[w].manifest
              found_bin == read_bin_version
              log == Append(workers[w].log, [ev |-> "exe", file |-> f])
          IN  IF raised \/ ~_validate_downloaded_exe(f)
              THEN /\ CanPost2
                   /\ after_queue' = Post2(DialogCb("showerror", "Update error: EXE"),
                                           BtnCb(TRUE))
                   /\ workers' = [workers EXCEPT ![w] = NoWorker]
              ELSE IF BinUpdateNeeded(found_bin, LatestBinReq(m))
              THEN IF ~m.has_bin
                   THEN /\ CanPost2
                        /\ after_queue' = Post2(DialogCb("showerror", "Bin update required"),
                                                BtnCb(TRUE))
                        /\ workers' = [workers EXCEPT ![w] = NoWorker]
                   ELSE /\ workers' = [workers EXCEPT ![w].pc = "download_bin",
                                                      ![w].log = log,
                                                      ![w].found_bin = found_bin]
                        /\ UNCHANGED after_queue
              ELSE /\ workers' = [workers EXCEPT ![w].pc = "swap",
                                                 ![w].log = log,
                                                 ![w].found_bin = found_bin]
                   /\ UNCHANGED after_queue
    /\ UNCHANGED <<notUpd, bin_version_txt, ui_pc, destroyed, updVars>>

\* lines 706-721: the bin zip is downloaded and extracted over bin/
DoUpdateBin(w) ==
    /\ workers[w].kind = "do_update"
    /\ workers[w].pc = "download_bin"
    /\ \E ok \in BOOLEAN :
          IF ~ok
          THEN /\ CanPost2
               /\ after_queue' = Post2(DialogCb("showerror", "Bin update failed"),
                                       BtnCb(TRUE))
               /\ workers' = [workers EXCEPT ![w] = NoWorker]
               /\ UNCHANGED bin_version_txt
          ELSE /\ workers' = [workers EXCEPT ![w].pc = "swap",
                                             ![w].log = Append(@, [ev |-> "bin"])]
               /\ bin_version_txt' =
                     [exists |-> TRUE, text |-> LatestBinReq(workers[w].manifest)]
               /\ UNCHANGED after_queue
    /\ UNCHANGED <<notUpd, ui_pc, destroyed, updVars>>

\* lines 723-733: running from source, the download is only reported; packaged,
\* schedule_exe_swap launches the script and raises SystemExit in this thread
DoUpdateSwap(w) ==
    /\ workers[w].kind = "do_update"
    /\ workers[w].pc = "swap"
    /\ IF ~frozen
       THEN /\ CanPost2
            /\ after_queue' = Post2(DialogCb("showinfo", "Update downloaded"), BtnCb(TRUE))
            /\ UNCHANGED swapped
       ELSE /\ \E launched \in BOOLEAN :
                  swapped' = IF launched
                             THEN [done |-> TRUE, log |-> workers[w].log,
                                   manifest |-> workers[w].manifest,
                                   found_bin |-> workers[w].found_bin]
                             ELSE swapped
            /\ UNCHANGED after_queue
    /\ workers' = [workers EXCEPT ![w] = NoWorker]
    /\ UNCHANGED <<notUpd, bin_version_txt, ui_pc, destroyed, update_btn, release, frozen>>

\* releases the host may serve: manifest.json and the assets next to it
AppVersionInputs ==
    { <<>>, <<"v">>, APP_VERSION, <<"1", ".", "2">>, <<"v", "1", ".", "3">> }

BinReqInputs == { <<>>, <<"1", ".", "1">> }

Releases ==
    [app_version : AppVersionInputs, bin_required_version : BinReqInputs,
     has_exe : BOOLEAN, has_bin : BOOLEAN]

BinFiles ==
    { [exists |-> FALSE, text |-> <<>>], GoodBinFile,
      [exists |-> TRUE, text |-> <<"1", ".", "1">>] }

InitUpd ==
    /\ InitApp
    /\ IdleVer
    /\ IdleZip
    /\ IdleCmd
    /\ bin_version_txt \in BinFiles
    /\ release \in Releases
    /\ frozen \in BOOLEAN

NextUpd ==
    \/ check_updates
    \/ \E w \in WorkerSlots : UpdWorkerBegin(w)
    \/ \E w \in WorkerSlots : UpdWorkerFetch(w)
    \/ \E w \in WorkerSlots : UpdWorkerDecide(w)
    \/ UpdateBtnCallback
    \/ DialogCallback
    \/ confirm_and_continue
    \/ \E w \in WorkerSlots : DoUpdateExe(w)
    \/ \E w \in WorkerSlots : DoUpdateBin(w)
    \/ \E w \in WorkerSlots : DoUpdateSwap(w)

SpecUpd == InitUpd /\ [][NextUpd]_vars

----------------------------------------------------------------------------
(* Claims about the update flow                                            *)

\* the manifest's app_version is strictly newer than the running APP_VERSION
Newer(m) == TupleLess(_version_tuple(APP_VERSION), _version_tuple(m.app_version))

HasCb(q, kind) == \E i \in 1..Len(q) : q[i].cb = kind

ReportsUpToDate(q) ==
    \E i \in 1..Len(q) : q[i].cb = "showinfo" /\ q[i].title = "Updates: up to date"

\* what a check_updates worker queued in the step in which it ended
QueuedBy(w) == SubSeq(after_queue', Len(after_queue) + 1, Len(after_queue'))

Decides(w) ==
    /\ workers[w].kind = "check_updates"
    /\ workers[w].pc = "decide"
    /\ workers'[w] = NoWorker
    /\ ~destroyed

DownloadsOnlyWhenNewer ==
    \A w \in WorkerSlots : workers[w].kind = "do_update" => Newer(workers[w].manifest)

\* C6 as stated: the install is offered if and only if the manifest's
\* app_version tuple is strictly greater than APP_VERSION's; otherwise the
\* flow reports "up to date" and downloads nothing.
C6_OfferIffNewer ==
    /\ [][\A w \in WorkerSlots :
            Decides(w) =>
               /\ HasCb(QueuedBy(w), "confirm_and_continue") <=> Newer(workers[w].manifest)
               /\ ~Newer(workers[w].manifest) => ReportsUpToDate(QueuedBy(w))]_vars
    /\ []DownloadsOnlyWhenNewer

\* C6 amended: the install is offered if and only if the manifest's
\* app_version tuple is strictly greater than APP_VERSION's and the release
\* holds the executable asset; when the tuple is less or equal and app_version
\* is not empty the flow reports "up to date"; nothing is downloaded unless
\* the tuple is strictly greater.
C6_OfferIffNewerAndAsset ==
    /\ [][\A w \in WorkerSlots :
            Decides(w) =>
               /\ HasCb(QueuedBy(w), "confirm_and_continue") <=>
                     (Newer(workers[w].manifest) /\ workers[w].manifest.has_exe)
               /\ (~Newer(workers[w].manifest)
                      /\ LStripChars(Strip(workers[w].manifest.app_version), {"v"}) # <<>>)
                  => ReportsUpToDate(QueuedBy(w))]_vars
    /\ []DownloadsOnlyWhenNewer

\* C6 witness: an offer for a newer version waits for the user's answer while
\* the release is "v1.3"
C6_Witness ==
    /\ HasCb(after_queue, "confirm_and_continue")
    /\ release.app_version = <<"v", "1", ".", "3">>

\* C7: the swap script is launched only after, in this order, the user
\* confirmed, the executable was downloaded and is valid (exists, at least
\* 204800 bytes, starts with MZ) and, when bin_required_version is greater than
\* the installed bin version, the bin zip was downloaded and applied.
C7_SwapOnlyAfterAllSteps ==
    swapped.done =>
       LET log == swapped.log
           needBin == TupleLess(_version_tuple(swapped.found_bin),
                                _version_tuple(swapped.manifest.bin_required_version))
       IN  /\ Len(log) >= 2
           /\ log[1].ev = "confirmed"
           /\ log[2].ev = "exe"
           /\ log[2].file.exists
           /\ log[2].file.size >= 204800
           /\ log[2].file.sig = <<"M", "Z">>
           /\ needBin => Len(log) = 3 /\ log[3].ev = "bin"

\* C7 witness: a swap was launched after a bin update had to be applied
C7_Witness ==
    /\ swapped.done
    /\ Len(swapped.log) = 3
    /\ swapped.manifest.bin_required_version = <<"1", ".", "1">>

----------------------------------------------------------------------------
(* apply_bin_update                                                        *)

\* length of the member names that are enumerated
MaxNameLen == 4

\* member.filename.replace("\\", "/")
ReplaceBackslash(name) == [i \in 1..Len(name) |-> IF name[i] = "\\" THEN "/" ELSE name[i]]

\* line 205: the member is skipped
MemberSkipped(name) ==
    \/ StartsWith(name, <<"/">>)
    \/ \E i \in 1..Len(Split(name, "/")) : Split(name, "/")[i] = <<".", ".">>

\* the directory _bin_dir() names: an absolute path, on drive c: under Windows
BinDir == [drive |-> IF os_name = "nt" THEN <<"c", ":">> ELSE <<>>,
           rooted |-> TRUE,
           parts |-> << <<"a", "p", "p">>, <<"b", "i", "n">> >>]

\* the path components that name something: "" and "." do not
Components(p) == SelectSeq(Split(p, "/"), LAMBDA c : c # <<>> /\ c # <<".">>)

\* ntpath.splitdrive on a name without a UNC prefix
NtDrive(p) == IF Len(p) >= 2 /\ p[2] = ":" THEN SubSeq(p, 1, 2) ELSE <<>>
NtRest(p) == IF Len(p) >= 2 /\ p[2] = ":" THEN SubSeq(p, 3, Len(p)) ELSE p

\* os.path.join(bin_dir, name) as ntpath.join and posixpath.join compute it
PathJoin(dir, name) ==
    IF os_name = "nt"
    THEN IF StartsWith(NtRest(name), <<"/">>)
         THEN \* a rooted second path replaces the first
              [drive |-> IF NtDrive(name) # <<>> THEN NtDrive(name) ELSE dir.drive,
               rooted |-> TRUE, parts |-> Components(NtRest(name))]
         ELSE IF NtDrive(name) # <<>> /\ NtDrive(name) # dir.drive
         THEN \* another drive: the first path is ignored
              [drive |-> NtDrive(name), rooted |-> FALSE,
               parts |-> Components(NtRest(name))]
         ELSE [drive |-> dir.drive, rooted |-> TRUE,
               parts |-> dir.parts \o Components(NtRest(name))]
    ELSE IF StartsWith(name, <<"/">>)
         THEN [drive |-> <<>>, rooted |-> TRUE, parts |-> Components(name)]
         ELSE [drive |-> <<>>, rooted |-> TRUE, parts |-> dir.parts \o Components(name)]

\* open(target_path, "wb") raises for a name that is empty or ends in "/", for
\* one that names a directory, and under Windows for a drive that is no letter
OpenFails(name) ==
    \/ name = <<>>
    \/ name[Len(name)] = "/"
    \/ Components(IF os_name = "nt" THEN NtRest(name) ELSE name) = <<>>
    \/ os_name = "nt" /\ NtDrive(name) # <<>> /\ name[1] \notin {"a", "c"}

\* one round of the loop over z.infolist()
ExtractMember ==
    /\ zip_state = "open"
    /\ zip_members # <<>>
    /\ LET name == ReplaceBackslash(Head(zip_members))
       IN  IF MemberSkipped(name)
           THEN /\ zip_members' = Tail(zip_members)
                /\ UNCHANGED <<zip_written, zip_state>>
           ELSE IF OpenFails(name)
           THEN /\ zip_state' = "raised"
                /\ UNCHANGED <<zip_members, zip_written>>
           ELSE /\ zip_written' = zip_written \cup
                                    {[member |-> Head(zip_members),
                                      path |-> PathJoin(BinDir, name)]}
                /\ zip_members' = Tail(zip_members)
                /\ UNCHANGED zip_state
    /\ UNCHANGED <<notZip, os_name>>

\* the loop is over
ExtractDone ==
    /\ zip_state = "open"
    /\ zip_members = <<>>
    /\ zip_state' = "done"
    /\ UNCHANGED <<notZip, os_name, zip_members, zip_written>>

ZipChars == {"a", "c", ".", "/", "\\", ":"}

ZipNames == UNION {[1..n -> ZipChars] : n \in 0..MaxNameLen}

\* an archive of two members: any name, then a harmless one
InitZip ==
    /\ InitApp
    /\ bin_version_txt = GoodBinFile
    /\ IdleVer
    /\ IdleUpd
    /\ IdleCmd
    /\ os_name \in {"nt", "posix"}
    /\ \E n \in ZipNames : zip_members = <<n, <<"a">> >>
    /\ zip_written = {}
    /\ zip_state = "open"

NextZip == ExtractMember \/ ExtractDone

SpecZip == InitZip /\ [][NextZip]_vars

\* a written path lies inside bin_dir (bin_dir itself counted in)
InsideBinDir(path) ==
    /\ path.rooted
    /\ path.drive = BinDir.drive
    /\ Len(path.parts) >= Len(BinDir.parts)
    /\ SubSeq(path.parts, 1, Len(BinDir.parts)) = BinDir.parts
    /\ \A i \in 1..Len(path.parts) : path.parts[i] # <<".", ".">>

\* a member name that is absolute: rooted, with or without a drive
AbsoluteName(name) ==
    LET n == ReplaceBackslash(name)
    IN  \/ StartsWith(n, <<"/">>)
        \/ os_name = "nt" /\ Len(n) >= 3 /\ n[2] = ":" /\ n[3] = "/"

HasDotDot(name) ==
    \E i, j \in 0..(Len(name) + 1) :
       /\ j = i + 3
       /\ i = 0 \/ name[i] \in {"/", "\\"}
       /\ j = Len(name) + 1 \/ name[j] \in {"/", "\\"}
       /\ name[i + 1] = "." /\ name[i + 2] = "."

\* C8: every file apply_bin_update writes lies inside bin_dir, and no member
\* whose name is absolute or has a ".." component is written.
C8_WritesStayInsideBinDir ==
    \A f \in zip_written :
       /\ InsideBinDir(f.path)
       /\ ~AbsoluteName(f.member)
       /\ ~HasDotDot(f.member)

----------------------------------------------------------------------------
(* connect() on arbitrary entries                                          *)

\* the groups tried in the last place of the address, and in the first
IpGroups == { <<>>, <<"0">>, <<"2", "5", "5">>, <<"2", "5", "6">>, <<"0", "0", "1", "0">>,
              <<"1", "a">> }

IpFirstGroups == { <<>>, <<"0">>, <<"2", "5", "6">> }

IpInputs ==
    { g1 \o <<".", "2", ".", "3", ".">> \o g4 : g1 \in IpFirstGroups, g4 \in IpGroups }
    \cup { <<>>, <<" ">>, <<"1", ".", "2", ".", "3">>,
           <<"1", ".", "2", ".", "3", ".", "4", ".", "5">>,
           <<" ">> \o GoodIp \o <<"\n">>,
           <<"1", ".", " ", "2", ".", "3", ".", "4">> }

PortInputs ==
    { <<>>, DefaultPort, <<"0">>, <<"1">>,
      <<"6", "5", "5", "3", "5">>, <<"6", "5", "5", "3", "6">>, <<"8", "0", "a">>,
      <<"-", "1">>, <<"+", "8", "0">>, <<" ", "4", "4", "3", " ">>, <<"4", " ", "3">>,
      <<SuperscriptTwo>> }

BinVersionInputs ==
    { [exists |-> FALSE, text |-> <<>>],
      GoodBinFile,
      [exists |-> TRUE, text |-> <<>>],
      [exists |-> TRUE, text |-> <<" ", "\n">>],
      [exists |-> TRUE, text |-> <<"1", ".", "0">>],
      [exists |-> TRUE, text |-> <<"0", ".", "9", ".", "9">>],
      [exists |-> TRUE, text |-> <<"2">>],
      [exists |-> TRUE, text |-> <<"a">>] }

\* the window as built, with anything typed into the two entries
InitConn ==
    /\ InitWindow
    /\ IdleVer
    /\ IdleUpd
    /\ IdleZip
    /\ IdleCmd
    /\ ip_var \in IpInputs
    /\ port_var \in PortInputs
    /\ bin_version_txt \in BinVersionInputs

NextConn ==
    \/ connect
    \/ \E w \in WorkerSlots : WorkerStart(w)
    \/ \E w \in WorkerSlots : ConnectWorkerDone(w)
    \/ finish_ui
    \/ DevicesAdbReturn
    \/ finish_ui_authorized

SpecConn == InitConn /\ [][NextConn]_vars

\* the three checks as the claim words them, on the stripped entries
BinCheck ==
    /\ bin_version_txt.exists
    /\ Strip(bin_version_txt.text) # <<>>
    /\ ~TupleLess(_version_tuple(Strip(bin_version_txt.text)),
                  _version_tuple(BIN_REQUIRED_VERSION))

DotPlaces(s) == {i \in 1..Len(s) : s[i] = "."}

\* the value of the digits of s strictly between places a and b
ValueBetween(s, a, b) == DecimalValue(SubSeq(s, a + 1, b - 1))

IpCheck(ip) ==
    /\ Cardinality(DotPlaces(ip)) = 3
    /\ \A i \in 1..Len(ip) : ip[i] = "." \/ IsDigit(ip[i])
    /\ LET ends == DotPlaces(ip) \cup {0, Len(ip) + 1}
       IN  \A a, b \in ends :
              (a < b /\ \A m \in ends : ~(a < m /\ m < b))
                 => b - a > 1 /\ ValueBetween(ip, a, b) \in 0..MaxByte

PortTyped == IF Strip(port_var) = <<>> THEN DefaultPort ELSE Strip(port_var)

PortCheck(port) ==
    /\ port # <<>>
    /\ \A i \in 1..Len(port) : IsDigit(port[i])
    /\ DecimalValue(port) \in 1..MaxPort

ChecksPass == BinCheck /\ IpCheck(Strip(ip_var)) /\ PortCheck(PortTyped)

\* worker w is started by this step to run "adb connect"
ConnectStarted(w) == workers'[w] # workers[w] /\ workers'[w].kind = "connect"

\* C9: "adb connect ip:port" is issued only for a compatible bin version, an
\* IPv4 address of four decimal groups in 0..255 and a port in 1..65535 (5555
\* for an empty port entry); a connect() call on which a check fails starts no
\* adb command and leaves is_connected, the status text and the buttons alone.
C9_ConnectOnlyWhenChecksPass ==
    [][ /\ \A w \in WorkerSlots :
              ConnectStarted(w) =>
                 /\ ChecksPass
                 /\ workers'[w].ip = Strip(ip_var)
                 /\ workers'[w].port = PortTyped
        /\ (connect /\ ~ChecksPass) =>
              UNCHANGED <<workers, is_connected, status_var, widgets>> ]_vars

\* a connect worker was started from a padded address and an empty port entry
C9_Witness ==
    \E w \in WorkerSlots :
       /\ workers[w].kind = "connect"
       /\ workers[w].port = DefaultPort
       /\ Strip(port_var) = <<>>
       /\ bin_version_txt # GoodBinFile

----------------------------------------------------------------------------
(* The ADB command box                                                     *)

\* lines the model lets the output pane take before it stops sending
MaxOutput == 2

HistoryLimit == 30

DANGEROUS_KEYWORDS ==
    { <<"r", "e", "b", "o", "o", "t">>, <<"r", "m", " ">>, <<"w", "i", "p", "e">>,
      <<"f", "a", "c", "t", "o", "r", "y">>,
      <<"u", "n", "i", "n", "s", "t", "a", "l", "l">>,
      <<"f", "o", "r", "m", "a", "t">>,
      <<"p", "m", " ", "u", "n", "i", "n", "s", "t", "a", "l", "l">>,
      <<"r", "e", "c", "o", "v", "e", "r", "y">>,
      <<"b", "o", "o", "t", "l", "o", "a", "d", "e", "r">> }

UpperCase == <<"A", "B", "C", "D", "E", "F", "G", "H", "I", "J", "K", "L", "M",
               "N", "O", "P", "Q", "R", "S", "T", "U", "V", "W", "X", "Y", "Z">>

LowerCase == <<"a", "b", "c", "d", "e", "f", "g", "h", "i", "j", "k", "l", "m",
               "n", "o", "p", "q", "r", "s", "t", "u", "v", "w", "x", "y", "z">>

\* str.lower()
Lower(s) ==
    [i \in 1..Len(s) |->
        IF \E j \in 1..26 : UpperCase[j] = s[i]
        THEN LowerCase[CHOOSE j \in 1..26 : UpperCase[j] = s[i]]
        ELSE s[i]]

\* str.split(): the runs of characters that are not whitespace
RECURSIVE SplitWS(_)
SplitWS(s) ==
    IF s = <<>> THEN <<>>
    ELSE IF Head(s) \in WS THEN SplitWS(Tail(s))
    ELSE LET r == SplitWS(Tail(s))
         IN  IF Len(s) > 1 /\ s[2] \notin WS
             THEN << <<Head(s)>> \o r[1] >> \o Tail(r)
             ELSE << <<Head(s)>> >> \o r

\* a variant of _is_dangerous: the text is not lowered
_is_dangerous_CaseSensitive(cmd) == \E k \in DANGEROUS_KEYWORDS : Contains(cmd, k)

_is_dangerous(cmd) == \E k \in DANGEROUS_KEYWORDS : Contains(Lower(cmd), k)

\* how far hist_dropped counts
MaxDropped == 2

\* a variant of _push_history: the test against the last entry left out
PushedHistory_KeepsRepeat(cmd) ==
    LET c == Strip(cmd)
        h == Append(_cmd_history, c)
    IN  IF c = <<>> THEN _cmd_history
        ELSE IF Len(h) > HistoryLimit
        THEN SubSeq(h, Len(h) - HistoryLimit + 1, Len(h))
        ELSE h

\* _push_history: the values of _cmd_history and _cmd_history_index afterwards
PushedHistory(cmd) ==
    LET c == Strip(cmd)
        h == Append(_cmd_history, c)
    IN  IF c = <<>> THEN _cmd_history
        ELSE IF _cmd_history # <<>> /\ _cmd_history[Len(_cmd_history)] = c
        THEN _cmd_history
        ELSE IF Len(h) > HistoryLimit
        THEN SubSeq(h, Len(h) - HistoryLimit + 1, Len(h))
        ELSE h

_push_history(cmd) ==
    /\ _cmd_history' = PushedHistory(cmd)
    /\ _cmd_history_index' =
          IF Strip(cmd) = <<>> THEN _cmd_history_index ELSE Len(PushedHistory(cmd))
    /\ hist_dropped' =
          IF /\ Len(_cmd_history) = HistoryLimit
             /\ PushedHistory(cmd) # _cmd_history
             /\ hist_dropped < MaxDropped
          THEN hist_dropped + 1
          ELSE hist_dropped

\* the Send button, or Return in the command entry
send_manual_command ==
    /\ ui_pc = UiIdle /\ ~destroyed
    /\ LET cmd == Strip(cmd_var)
           args == IF advanced_cmd_var THEN SplitWS(cmd)
                   ELSE << <<"s", "h", "e", "l", "l">> >> \o SplitWS(cmd)
           shown == IF advanced_cmd_var THEN <<"a", "d", "b", " ">> \o cmd
                    ELSE <<"a", "d", "b", " ", "s", "h", "e", "l", "l", " ">> \o cmd
       IN  IF ~is_connected \/ cmd = <<>>
           THEN UNCHANGED <<_cmd_history, _cmd_history_index, hist_dropped,
                            cmd_output, workers>>
           ELSE /\ _push_history(cmd)
                /\ \E yes \in BOOLEAN :
                      IF _is_dangerous(cmd) /\ ~yes
                      THEN UNCHANGED <<cmd_output, workers>>
                      ELSE /\ Len(cmd_output) < MaxOutput
                           /\ cmd_output' = Append(cmd_output,
                                                   [line |-> "command", shown |-> shown])
                           /\ \E w \in WorkerSlots :
                                 /\ FreeWorker(w)
                                 /\ workers' = [workers EXCEPT ![w] =
                                       [kind |-> "manual", pc |-> "start", args |-> args,
                                        confirmed |-> _is_dangerous(cmd) /\ yes]]
    /\ UNCHANGED <<connVars, kaVars, ui_pc, after_queue, destroyed, cmd_var,
                   advanced_cmd_var, verVars, updVars, zipVars>>

\* send_manual_command.worker: run_adb_command returned, the result line goes
\* to the UI thread
ManualWorkerDone(w) ==
    /\ workers[w].kind = "manual"
    /\ workers[w].pc = "adb"
    /\ CanPost
    /\ \E ok \in BOOLEAN : after_queue' = Post([cb |-> "_append_cmd_output", ok |-> ok])
    /\ workers' = [workers EXCEPT ![w] = NoWorker]
    /\ UNCHANGED <<connVars, kaVars, ui_pc, destroyed>>
    /\ UNCHANGED notConn

\* the posted _append_cmd_output on the UI thread
AppendResultCallback ==
    /\ ui_pc = UiIdle /\ ~destroyed
    /\ after_queue # <<>>
    /\ Head(after_queue).cb = "_append_cmd_output"
    /\ after_queue' = Tail(after_queue)
    /\ cmd_output' = Append(cmd_output, [line |-> "result", ok |-> Head(after_queue).ok])
    /\ UNCHANGED <<connVars, kaVars, ui_pc, workers, destroyed, cmd_var,
                   advanced_cmd_var, _cmd_history, _cmd_history_index, hist_dropped,
                   verVars, updVars, zipVars>>

CmdWords == { <<"l", "s">>, <<"r", "m">>, <<"R", "m">>, <<"x", "r", "m">>,
              <<"r", "e", "b", "o", "o", "t">>, <<"R", "E", "B", "O", "O", "T">>,
              <<"p", "m">> }

CmdTails == { <<>> } \cup
            { sep \o t : sep \in { <<" ">>, <<"\t">> },
                         t \in { <<"-", "r", "f">>,
                                 <<"u", "n", "i", "n", "s", "t", "a", "l", "l">> } }

CmdPads == { <<>>, <<" ">> }

\* what the user may have typed into the command entry
CmdInputs ==
    { <<>> } \cup
    { lead \o word \o tail \o trail :
         lead \in CmdPads, word \in CmdWords, tail \in CmdTails, trail \in CmdPads }

\* the window before any connect, or as connect's finish_ui leaves it after
\* "adb connect" succeeded and the device is authorized
InitCmd ==
    /\ InitThreads
    /\ IdleVer
    /\ IdleUpd
    /\ IdleZip
    /\ bin_version_txt = GoodBinFile
    /\ ip_var = GoodIp
    /\ port_var = DefaultPort
    /\ \/ InitDisconnected
       \/ /\ is_connected = TRUE
          /\ status_var = <<"Connected to", GoodIp, DefaultPort>>
          /\ widgets = update_remote_buttons_state(TRUE)
    /\ cmd_var \in CmdInputs
    /\ advanced_cmd_var \in BOOLEAN

NextCmd ==
    \/ send_manual_command
    \/ \E w \in WorkerSlots : WorkerStart(w)
    \/ \E w \in WorkerSlots : ManualWorkerDone(w)
    \/ AppendResultCallback

SpecCmd == InitCmd /\ [][NextCmd]_vars

\* the text names a dangerous keyword, whatever the case of its letters
HasDangerousKeyword(text) ==
    \E k \in DANGEROUS_KEYWORDS :
       \E i \in 0..(Len(text) - Len(k)) :
          \A j \in 1..Len(k) : Lower(<<text[i + j]>>) = <<k[j]>>

\* worker w is started by this step to run the manual command
ManualStarted(w) == workers'[w] # workers[w] /\ workers'[w].kind = "manual"

\* C10 as stated: a command whose entry text contains a dangerous keyword is
\* passed to adb only after the user answered yes, and without that yes no
\* adb command starts and the output pane is left alone.
C10_DangerousNeedsYes ==
    [][ HasDangerousKeyword(cmd_var) =>
           /\ \A w \in WorkerSlots : ManualStarted(w) => workers'[w].confirmed
           /\ (send_manual_command /\ cmd_output' # cmd_output) =>
                 \E w \in WorkerSlots : ManualStarted(w) /\ workers'[w].confirmed ]_vars

\* C10 amended: a command whose text, once surrounding whitespace is stripped,
\* contains a dangerous keyword is passed to adb only after the user answered
\* yes, and without that yes no adb command starts and the output pane is left
\* alone.
C10_StrippedDangerousNeedsYes ==
    [][ HasDangerousKeyword(Strip(cmd_var)) =>
           /\ \A w \in WorkerSlots : ManualStarted(w) => workers'[w].confirmed
           /\ (send_manual_command /\ cmd_output' # cmd_output) =>
                 \E w \in WorkerSlots : ManualStarted(w) /\ workers'[w].confirmed ]_vars

\* C10 witness: a confirmed dangerous command typed in capitals is running in
\* full-adb mode
C10_Witness ==
    \E w \in WorkerSlots :
       /\ workers[w].kind = "manual"
       /\ workers[w].pc = "adb"
       /\ workers[w].confirmed
       /\ advanced_cmd_var
       /\ Contains(cmd_var, <<"R", "E", "B", "O", "O", "T">>)

----------------------------------------------------------------------------
(* The command history                                                     *)

\* self._cmd_history[i] as Python reads it: from the end for a negative i,
\* IndexError outside the list
HistoryAt(i) ==
    IF 0 <= i /\ i < Len(_cmd_history) THEN _cmd_history[i + 1]
    ELSE IF 0 - Len(_cmd_history) <= i /\ i < 0 THEN _cmd_history[Len(_cmd_history) + i + 1]
    ELSE <<"IndexError">>

\* what stays as it is while the history is walked
notHist == <<connVars, kaVars, thrVars, verVars, updVars, zipVars, advanced_cmd_var,
             cmd_output>>

\* the Up key in the command entry
_history_up ==
    /\ ui_pc = UiIdle /\ ~destroyed
    /\ IF _cmd_history = <<>>
       THEN UNCHANGED <<_cmd_history_index, cmd_var>>
       ELSE /\ _cmd_history_index' =
                  IF _cmd_history_index > 0 THEN _cmd_history_index - 1
                  ELSE _cmd_history_index
            /\ cmd_var' = HistoryAt(_cmd_history_index')
    /\ UNCHANGED <<notHist, _cmd_history, hist_dropped>>

\* the Down key in the command entry
_history_down ==
    /\ ui_pc = UiIdle /\ ~destroyed
    /\ IF _cmd_history = <<>>
       THEN UNCHANGED <<_cmd_history_index, cmd_var>>
       ELSE IF _cmd_history_index < Len(_cmd_history) - 1
       THEN /\ _cmd_history_index' = _cmd_history_index + 1
            /\ cmd_var' = HistoryAt(_cmd_history_index')
       ELSE /\ _cmd_history_index' = Len(_cmd_history)
            /\ cmd_var' = <<>>
    /\ UNCHANGED <<notHist, _cmd_history, hist_dropped>>

\* the arguments _push_history is called with
HistInputs == { <<>>, <<" ">>, <<"l", "s">>, <<"i", "d">>, <<" ", "l", "s", "\n">> }

\* a call of _push_history
PushHistoryCall ==
    /\ ui_pc = UiIdle /\ ~destroyed
    /\ \E cmd \in HistInputs : _push_history(cmd)
    /\ UNCHANGED <<notHist, cmd_var>>

InitHist ==
    /\ InitApp
    /\ bin_version_txt = GoodBinFile
    /\ IdleVer
    /\ IdleUpd
    /\ IdleZip
    /\ IdleCmd

NextHist == PushHistoryCall \/ _history_up \/ _history_down

SpecHist == InitHist /\ [][NextHist]_vars

\* the history is well formed: bounded, no empty entry, no equal neighbours,
\* the index inside 0..len
HistoryShape ==
    /\ Len(_cmd_history) <= 30
    /\ \A i \in 1..Len(_cmd_history) : _cmd_history[i] # <<>>
    /\ \A i \in 1..(Len(_cmd_history) - 1) : _cmd_history[i] # _cmd_history[i + 1]
    /\ 0 <= _cmd_history_index /\ _cmd_history_index <= Len(_cmd_history)

\* a changed history is the old one with one entry added at the new end,
\* cut at its old end to 30 entries
KeepsMostRecent ==
    _cmd_history' # _cmd_history =>
       LET n == Len(_cmd_history')
           k == Len(_cmd_history) + 1 - n
       IN  /\ n = IF Len(_cmd_history) < 30 THEN Len(_cmd_history) + 1 ELSE 30
           /\ \A i \in 1..(n - 1) : _cmd_history'[i] = _cmd_history[i + k]

\* the entry shown after Up or Down is the one at the new index, or nothing
ReadsInside ==
    (cmd_var' # cmd_var) =>
       \/ cmd_var' = <<>> /\ _cmd_history_index' = Len(_cmd_history)
       \/ /\ _cmd_history_index' < Len(_cmd_history)
          /\ cmd_var' = _cmd_history[_cmd_history_index' + 1]

\* C11: under any sequence of _push_history, _history_up and _history_down
\* calls the history holds at most 30 entries, the most recent ones, none
\* empty and no two equal neighbours, and the index stays within 0..len, so
\* that Up and Down read inside the list.
C11_HistoryBounded ==
    /\ []HistoryShape
    /\ [][KeepsMostRecent /\ ReadsInside]_vars

\* C11 witness: the full history has dropped entries and Up has walked to its
\* oldest entry
C11_Witness ==
    /\ hist_dropped = MaxDropped
    /\ Len(_cmd_history) = 30
    /\ _cmd_history_index = 0
    /\ cmd_var = _cmd_history[1]

----------------------------------------------------------------------------
(* The remote keys                                                         *)

\* how subprocess.run may end inside run_adb_command
AdbOutcomes == {"exit0", "exit1", "TimeoutExpired", "FileNotFoundError", "Exception"}

\* run_adb_command: the (ok, out, err) it returns, and whether it raised
run_adb_command(outcome) ==
    [ok |-> outcome = "exit0",
     err |-> CASE outcome = "exit0" -> ""
               [] outcome = "exit1" -> "stderr"
               [] outcome = "FileNotFoundError" -> "adb executable not found"
               [] OTHER -> "str(e)",
     raised |-> FALSE]

\* two of the key codes wired to buttons and keys in _build_ui
KeyCodes == {19, 4}

\* an arrow, Back, Home, Menu or Play button, or a bound key
send_key ==
    /\ ui_pc = UiIdle /\ ~destroyed
    /\ IF ~is_connected
       THEN UNCHANGED workers
       ELSE \E keycode \in KeyCodes, w \in WorkerSlots :
               /\ FreeWorker(w)
               /\ workers' = [workers EXCEPT ![w] =
                                 [kind |-> "key", pc |-> "start", keycode |-> keycode]]
    /\ UNCHANGED <<connVars, kaVars, ui_pc, after_queue, destroyed>>
    /\ UNCHANGED notConn

\* send_key.worker: run_adb_command returned
KeyAdbReturn(w) ==
    /\ workers[w].kind = "key"
    /\ workers[w].pc = "adb"
    /\ \E o \in AdbOutcomes :
          workers' = [workers EXCEPT ![w] =
                         [kind |-> "key", pc |-> "returned",
                          keycode |-> workers[w].keycode, res |-> run_adb_command(o)]]
    /\ UNCHANGED <<connVars, kaVars, ui_pc, after_queue, destroyed>>
    /\ UNCHANGED notConn

\* send_key.worker: "if not ok" queues the error dialog, and the thread ends
KeyWorkerEnd(w) ==
    /\ workers[w].kind = "key"
    /\ workers[w].pc = "returned"
    /\ IF workers[w].res.ok
       THEN UNCHANGED after_queue
       ELSE /\ CanPost
            /\ after_queue' = Post(DialogCb("showerror", "ADB error"))
    /\ workers' = [workers EXCEPT ![w] = NoWorker]
    /\ UNCHANGED <<connVars, kaVars, ui_pc, destroyed>>
    /\ UNCHANGED notConn

\* the OK button, or Return
send_ok ==
    /\ ui_pc = UiIdle /\ ~destroyed
    /\ IF ~is_connected
       THEN UNCHANGED workers
       ELSE \E w \in WorkerSlots :
               /\ FreeWorker(w)
               /\ workers' = [workers EXCEPT ![w] = [kind |-> "ok", pc |-> "start"]]
    /\ UNCHANGED <<connVars, kaVars, ui_pc, after_queue, destroyed>>
    /\ UNCHANGED notConn

\* send_ok.worker: keyevent 23 returned, the thread sleeps
OkFirstReturn(w) ==
    /\ workers[w].kind = "ok"
    /\ workers[w].pc = "adb"
    /\ \E o \in AdbOutcomes :
          workers' = [workers EXCEPT ![w] =
                         [kind |-> "ok", pc |-> "sleep", res1 |-> run_adb_command(o)]]
    /\ UNCHANGED <<connVars, kaVars, ui_pc, after_queue, destroyed>>
    /\ UNCHANGED notConn

\* send_ok.worker: keyevent 66 starts
OkSecondStart(w) ==
    /\ workers[w].kind = "ok"
    /\ workers[w].pc = "sleep"
    /\ workers' = [workers EXCEPT ![w].pc = "adb2"]
    /\ UNCHANGED <<connVars, kaVars, ui_pc, after_queue, destroyed>>
    /\ UNCHANGED notConn

\* send_ok.worker: keyevent 66 returned
OkSecondReturn(w) ==
    /\ workers[w].kind = "ok"
    /\ workers[w].pc = "adb2"
    /\ \E o \in AdbOutcomes :
          workers' = [workers EXCEPT ![w] =
                         [kind |-> "ok", pc |-> "returned", res1 |-> workers[w].res1,
                          res2 |-> run_adb_command(o)]]
    /\ UNCHANGED <<connVars, kaVars, ui_pc, after_queue, destroyed>>
    /\ UNCHANGED notConn

\* send_ok.worker: both results are dropped, and the thread ends
OkWorkerEnd(w) ==
    /\ workers[w].kind = "ok"
    /\ workers[w].pc = "returned"
    /\ workers' = [workers EXCEPT ![w] = NoWorker]
    /\ UNCHANGED <<connVars, kaVars, ui_pc, after_queue, destroyed>>
    /\ UNCHANGED notConn

\* the commands typed while the keys are in use
RemoteCmdInputs == { <<>>, <<"l", "s">> }

\* the window before any connect, or as a completed connect leaves it
InitRemote ==
    /\ InitThreads
    /\ IdleVer
    /\ IdleUpd
    /\ IdleZip
    /\ bin_version_txt = GoodBinFile
    /\ ip_var = GoodIp
    /\ port_var = DefaultPort
    /\ \/ InitDisconnected
       \/ /\ is_connected = TRUE
          /\ status_var = <<"Connected to", GoodIp, DefaultPort>>
          /\ widgets = update_remote_buttons_state(TRUE)
    /\ cmd_var \in RemoteCmdInputs
    /\ advanced_cmd_var = FALSE

NextRemote ==
    \/ send_key
    \/ send_ok
    \/ send_manual_command
    \/ \E w \in WorkerSlots : WorkerStart(w)
    \/ \E w \in WorkerSlots : KeyAdbReturn(w)
    \/ \E w \in WorkerSlots : KeyWorkerEnd(w)
    \/ \E w \in WorkerSlots : OkFirstReturn(w)
    \/ \E w \in WorkerSlots : OkSecondStart(w)
    \/ \E w \in WorkerSlots : OkSecondReturn(w)
    \/ \E w \in WorkerSlots : OkWorkerEnd(w)
    \/ \E w \in WorkerSlots : ManualWorkerDone(w)
    \/ AppendResultCallback
    \/ DialogCallback
    \/ disconnect
    \/ disconnect_done

SpecRemote == InitRemote /\ [][NextRemote]_vars

\* worker w ends in this step after an adb command of its own failed
EndsAfterFailure(w) ==
    /\ workers'[w] = NoWorker
    /\ \/ /\ workers[w].kind = "key" /\ workers[w].pc = "returned"
          /\ ~workers[w].res.ok
       \/ /\ workers[w].kind = "ok" /\ workers[w].pc = "returned"
          /\ ~workers[w].res1.ok \/ ~workers[w].res2.ok
       \/ /\ workers[w].kind = "manual" /\ workers[w].pc = "adb"
          /\ \E i \in 1..Len(QueuedBy(w)) :
                QueuedBy(w)[i].cb = "_append_cmd_output" /\ ~QueuedBy(w)[i].ok

\* no result of run_adb_command is an exception
AdbNeverRaises ==
    \A w \in WorkerSlots :
       /\ (workers[w].kind = "key" /\ workers[w].pc = "returned") => ~workers[w].res.raised
       /\ (workers[w].kind = "ok" /\ workers[w].pc = "sleep") => ~workers[w].res1.raised
       /\ (workers[w].kind = "ok" /\ workers[w].pc = "returned") => ~workers[w].res2.raised

\* C12: run_adb_command never raises, and a key, OK or manual command whose
\* adb call failed ends with an error dialog queued for the user.
C12_FailuresShowErrorDialog ==
    /\ []AdbNeverRaises
    /\ [][\A w \in WorkerSlots :
            EndsAfterFailure(w) => HasCb(QueuedBy(w), "showerror")]_vars

\* worker w begins an adb shell command in this step
ShellCommandBegins(w) ==
    /\ workers[w].kind \in {"key", "ok", "manual"}
    /\ workers'[w].kind = workers[w].kind
    /\ workers'[w].pc # workers[w].pc
    /\ workers'[w].pc \in {"adb", "adb2"}

\* C15: send_key, send_ok and send_manual_command start no worker while
\* is_connected is false, and no adb shell command of theirs begins while
\* is_connected is false.
C15_NoShellCommandWhileDisconnected ==
    /\ [][(~is_connected /\ (send_key \/ send_ok \/ send_manual_command))
             => UNCHANGED workers]_vars
    /\ [][\A w \in WorkerSlots : ShellCommandBegins(w) => is_connected]_vars

----------------------------------------------------------------------------
(* The update flow to its end                                              *)

\* the steps of the update threads in slot w
UpdStep(w) ==
    \/ UpdWorkerBegin(w)
    \/ UpdWorkerFetch(w)
    \/ UpdWorkerDecide(w)
    \/ DoUpdateExe(w)
    \/ DoUpdateBin(w)
    \/ DoUpdateSwap(w)

\* mainloop runs the callback at the head of the queue
UpdCallback == UpdateBtnCallback \/ DialogCallback \/ confirm_and_continue

NextUpdClose == NextUpd \/ _on_close \/ ProcessExit

\* a release that is newer and asks for a newer bin, or the running version
\* again; packaged or run from source
InitUpdFair ==
    /\ InitApp
    /\ IdleVer
    /\ IdleZip
    /\ IdleCmd
    /\ bin_version_txt = GoodBinFile
    /\ release \in { r \in Releases : /\ r.app_version \in {APP_VERSION, <<"v", "1", ".", "3">>}
                                      /\ r.has_exe /\ r.has_bin }
    /\ frozen \in BOOLEAN

\* an update flow is under way in slot w
InUpdateFlow(w) == workers[w].kind \in {"check_updates", "do_update"}

\* a thread of the update flow does not stand still for ever: the weak
\* fairness of UpdStep(w), written with the thread's existence in the place
\* of ENABLED
UpdThreadRuns(w) == []<>(~InUpdateFlow(w)) \/ []<><<UpdStep(w)>>_vars

\* threads that can run do run, mainloop gets to its queue, and a dialog that
\* is up is answered; clicks and closing the window are up to the user
FairSpecUpd ==
    /\ InitUpdFair
    /\ [][NextUpdClose]_vars
    /\ \A w \in WorkerSlots : UpdThreadRuns(w)
    /\ WF_vars(UpdCallback)

\* no update thread is alive and nothing of the flow waits in the queue
NoUpdateFlow ==
    /\ \A w \in WorkerSlots : ~InUpdateFlow(w)
    /\ \A i \in 1..Len(after_queue) :
          after_queue[i].cb \notin {"update_btn", "confirm_and_continue"}

\* C13: a flow that does not launch the swap script leaves the update button
\* enabled: once no flow is under way the button is enabled, and a disabled
\* button is eventually enabled again.
C13_ButtonEnabledAgain ==
    /\ []((NoUpdateFlow /\ ~swapped.done /\ ~destroyed) => update_btn)
    /\ (~update_btn ~> (update_btn \/ swapped.done \/ destroyed))

\* C16: once the swap script is launched the old instance goes away: its
\* window is destroyed.
C16_OldInstanceTerminates == swapped.done ~> destroyed

\* C18: at most one update flow is under way at any time.
C18_OneUpdateFlow ==
    Cardinality({w \in WorkerSlots : InUpdateFlow(w)})
       + Cardinality({i \in 1..Len(after_queue) :
                         after_queue[i].cb = "confirm_and_continue"}) <= 1

----------------------------------------------------------------------------
(* Connection state after a connect attempt                                *)

\* the listing has the device of this attempt, ip:port, in state "device"
TargetIsDevice(listing) ==
    \E i \in 1..Len(listing) :
        listing[i].serial = "target" /\ listing[i].state = "device"

\* finish_ui ends: after a failed "adb connect", or after the listing was read
ConnectFailedEnds ==
    /\ ui_pc = UiIdle /\ after_queue # <<>>
    /\ Head(after_queue).cb = "finish_ui" /\ ~Head(after_queue).success
    /\ after_queue' = Tail(after_queue)

ConnectListedEnds == ui_pc.at = "devices_out" /\ ui_pc' = UiIdle

\* C14: is_connected becomes true only when finish_ui ends after a successful
\* "adb connect" and after "adb devices" succeeded and listed the device of this
\* attempt in state "device"; every other end of finish_ui leaves it false.
C14_ConnectedOnlyWhenTargetListed ==
    /\ [][(is_connected' /\ ~is_connected) => ConnectListedEnds]_vars
    /\ [][ConnectListedEnds =>
             (is_connected' <=> (ui_pc.ok /\ TargetIsDevice(ui_pc.listing)))]_vars
    /\ [][ConnectFailedEnds => ~is_connected']_vars

----------------------------------------------------------------------------
(* Keep-alive after the box is checked again                               *)

\* the box goes from unchecked to checked while connected
BoxCheckedWhileConnected ==
    ui_pc = UiIdle /\ ~keep_alive_var /\ keep_alive_var' /\ is_connected

\* a connect attempt ends connected with the box checked
ConnectedWithBoxChecked == ConnectListedEnds /\ is_connected' /\ keep_alive_var

\* a keep-alive thread is alive and the stop signal is cleared
KeepAlivePolling == KeepAliveRunning /\ ~keepalive_stop

\* C17: whenever the box is checked while connected, or a connect attempt ends
\* connected with the box checked, a keep-alive thread is alive afterwards and
\* the stop signal is cleared.
C17_ReenabledKeepAlivePolls ==
    [][(BoxCheckedWhileConnected \/ ConnectedWithBoxChecked) => KeepAlivePolling']_vars

====
